---------------------------- MODULE Spec2Model ----------------------------
(***************************************************************************)
(* Model of the ALU grade calculator: GradingScale, Assignment,            *)
(* GPACalculator and GradeCalculator.                                      *)
(*                                                                         *)
(* Numbers are exact rationals [n |-> numerator, d |-> denominator] kept   *)
(* in lowest terms with d > 0, so 89.99 is 8999/100 and 4.8 is 24/5.       *)
(* Python values that can end up inside the scale are tagged records:      *)
(*   [t |-> "num", v |-> rational]   a number                              *)
(*   [t |-> "none"]                  None (JSON null)                      *)
(*   [t |-> "list", e |-> set]       a list of strings                     *)
(*   [t |-> "dict", d |-> record]    a dict with string keys               *)
(* A dict with ordered keys (the scale itself) is a sequence of            *)
(* [letter, data] entries with distinct letters, in insertion order.       *)
(***************************************************************************)
EXTENDS Integers, Sequences, FiniteSets, TLC

VARIABLES scale, formative_assignments, summative_assignments, assignment, last,
          pc, locals

vars == <<scale, formative_assignments, summative_assignments, assignment, last,
          pc, locals>>

---------------------------------------------------------------------------
(* Exact rational arithmetic *)

Abs(x) == IF x < 0 THEN -x ELSE x

RECURSIVE Gcd(_, _)
Gcd(a, b) == IF b = 0 THEN a ELSE Gcd(b, a % b)

Rat(n, d) ==
    LET g == Gcd(Abs(n), Abs(d))
        s == IF d < 0 THEN -1 ELSE 1
    IN  [n |-> (s * n) \div g, d |-> (s * d) \div g]

Int2Rat(i) == [n |-> i, d |-> 1]

RLeq(a, b) == a.n * b.d <= b.n * a.d
RLt(a, b) == a.n * b.d < b.n * a.d
RAdd(a, b) == Rat(a.n * b.d + b.n * a.d, a.d * b.d)
RMul(a, b) == Rat(a.n * b.n, a.d * b.d)
RDiv(a, b) == Rat(a.n * b.d, a.d * b.n)
RMax(a, b) == IF RLt(a, b) THEN b ELSE a
RMin(a, b) == IF RLt(b, a) THEN b ELSE a

Zero == Int2Rat(0)
Hundred == Int2Rat(100)

---------------------------------------------------------------------------
(* Python values *)

Num(r) == [t |-> "num", v |-> r]
None == [t |-> "none"]
List(elems) == [t |-> "list", e |-> elems]
Dict(rec) == [t |-> "dict", d |-> rec]

Band(mn, mx, g) == Dict([min |-> Num(mn), max |-> Num(mx), gpa |-> Num(g)])
Entry(letter, data) == [letter |-> letter, data |-> data]

\* Outcome of evaluating  data[key]
SubscriptExc(data, key) ==
    IF data.t = "dict"
    THEN IF key \in DOMAIN data.d THEN "none" ELSE "KeyError"
    ELSE "TypeError"

\* Outcome of an ordering comparison (<, <=, >) between two Python values
CompareExc(a, b) == IF a.t = "num" /\ b.t = "num" THEN "none" ELSE "TypeError"

---------------------------------------------------------------------------
(* GradingScale *)

max_gpa == Int2Rat(5)
passing_threshold == Int2Rat(50)

DefaultScale == <<
    Entry("A+", Band(Int2Rat(98), Int2Rat(100), Int2Rat(5))),
    Entry("A",  Band(Rat(8999, 100), Int2Rat(97), Rat(48, 10))),
    Entry("A-", Band(Int2Rat(80), Rat(9699, 100), Rat(47, 10))),
    Entry("B+", Band(Int2Rat(75), Rat(7999, 100), Rat(43, 10))),
    Entry("B",  Band(Int2Rat(70), Rat(7499, 100), Int2Rat(4))),
    Entry("B-", Band(Int2Rat(65), Rat(6999, 100), Rat(37, 10))),
    Entry("C+", Band(Int2Rat(60), Rat(6499, 100), Rat(33, 10))),
    Entry("C",  Band(Int2Rat(55), Rat(5999, 100), Int2Rat(3))),
    Entry("C-", Band(Int2Rat(50), Rat(5499, 100), Rat(27, 10))),
    Entry("D",  Band(Int2Rat(40), Rat(4999, 100), Int2Rat(2))),
    Entry("F",  Band(Int2Rat(0), Rat(3999, 100), Int2Rat(1))) >>

\* The per-band checks of _validate_scale for one band: the exception the
\* loop body raises for it, or "none".
ValidateBand(data) ==
    IF SubscriptExc(data, "min") # "none" THEN SubscriptExc(data, "min")
    ELSE IF SubscriptExc(data, "max") # "none" THEN SubscriptExc(data, "max")
    ELSE IF CompareExc(data.d.min, data.d.max) # "none" THEN "TypeError"
    ELSE IF RLt(data.d.max.v, data.d.min.v) THEN "ValueError"
    ELSE IF SubscriptExc(data, "gpa") # "none" THEN SubscriptExc(data, "gpa")
    ELSE IF CompareExc(data.d.gpa, Num(max_gpa)) # "none" THEN "TypeError"
    ELSE IF RLt(max_gpa, data.d.gpa.v) \/ RLt(data.d.gpa.v, Zero) THEN "ValueError"
    ELSE "none"

RECURSIVE ValidateLoop(_, _)
ValidateLoop(sc, i) ==
    IF i > Len(sc) THEN "none"
    ELSE IF ValidateBand(sc[i].data) # "none" THEN ValidateBand(sc[i].data)
    ELSE ValidateLoop(sc, i + 1)

\* all_ranges.sort(key=min) is stable: the first element is the earliest
\* band with the least min, the last one the latest band with the greatest.
SortedFirst(sc) ==
    CHOOSE i \in 1..Len(sc) :
        \A j \in 1..Len(sc) :
            \/ RLt(sc[i].data.d.min.v, sc[j].data.d.min.v)
            \/ (sc[i].data.d.min.v = sc[j].data.d.min.v /\ i <= j)

SortedLast(sc) ==
    CHOOSE i \in 1..Len(sc) :
        \A j \in 1..Len(sc) :
            \/ RLt(sc[j].data.d.min.v, sc[i].data.d.min.v)
            \/ (sc[i].data.d.min.v = sc[j].data.d.min.v /\ j <= i)

\* _validate_scale: the exception it raises ("none" when it returns) and
\* whether it printed the coverage warning.
_validate_scale(sc) ==
    IF ValidateLoop(sc, 1) # "none"
    THEN [exc |-> ValidateLoop(sc, 1), warned |-> FALSE]
    ELSE IF Len(sc) = 0
    THEN [exc |-> "IndexError", warned |-> FALSE]
    ELSE [exc |-> "none",
          warned |-> \/ sc[SortedFirst(sc)].data.d.min.v # Zero
                     \/ sc[SortedLast(sc)].data.d.max.v # Hundred]

Clamp(p) == RMax(Zero, RMin(Hundred, p))

\* The scan of percentage_to_grade from band i on, for an already clamped p.
RECURSIVE GradeScan(_, _, _)
GradeScan(sc, p, i) ==
    IF i > Len(sc)
    THEN [exc |-> "none", gpa |-> Num(Int2Rat(1)), letter |-> "F", warned |-> TRUE]
    ELSE LET data == sc[i].data
             raised(e) == [exc |-> e, gpa |-> None, letter |-> "", warned |-> FALSE]
         IN  IF SubscriptExc(data, "min") # "none" THEN raised(SubscriptExc(data, "min"))
             ELSE IF CompareExc(data.d.min, Num(p)) # "none" THEN raised("TypeError")
             ELSE IF ~RLeq(data.d.min.v, p) THEN GradeScan(sc, p, i + 1)
             ELSE IF SubscriptExc(data, "max") # "none" THEN raised(SubscriptExc(data, "max"))
             ELSE IF CompareExc(Num(p), data.d.max) # "none" THEN raised("TypeError")
             ELSE IF ~RLeq(p, data.d.max.v) THEN GradeScan(sc, p, i + 1)
             ELSE IF SubscriptExc(data, "gpa") # "none" THEN raised(SubscriptExc(data, "gpa"))
             ELSE [exc |-> "none", gpa |-> data.d.gpa, letter |-> sc[i].letter,
                   warned |-> FALSE]

\* percentage_to_grade in which the last matching band wins
percentage_to_grade_LastMatch(sc, p) ==
    GradeScan([i \in 1..Len(sc) |-> sc[Len(sc) + 1 - i]], Clamp(p), 1)

percentage_to_grade(sc, p) == GradeScan(sc, Clamp(p), 1)

is_passing(p) == RLeq(passing_threshold, p)


\* self.scale[letter] = {...}: an existing letter keeps its position, a new
\* letter goes last.
Upsert(sc, letter, data) ==
    IF \E i \in 1..Len(sc) : sc[i].letter = letter
    THEN [i \in 1..Len(sc) |->
            IF sc[i].letter = letter THEN Entry(letter, data) ELSE sc[i]]
    ELSE Append(sc, Entry(letter, data))

\* GradingScale.update_grade: the scale the call leaves behind and the
\* exception it raises ("none" when it returns).
update_grade(sc, letter, min_score, max_score, gpa) ==
    LET assigned == Upsert(sc, letter, Band(min_score, max_score, gpa))
    IN  [scale |-> assigned, exc |-> _validate_scale(assigned).exc]

---------------------------------------------------------------------------
(* JSON text.  A text is malformed, or well formed with a JSON value:      *)
(*   [j |-> "null"], [j |-> "number", v |-> rational],                     *)
(*   [j |-> "array", items |-> sequence of strings],                       *)
(*   [j |-> "object", members |-> sequence of [key, value]]                *)

JNull == [j |-> "null"]
JNum(r) == [j |-> "number", v |-> r]
JArr(items) == [j |-> "array", items |-> items]
JObj(members) == [j |-> "object", members |-> members]
Member(k, v) == [key |-> k, value |-> v]
Malformed == [wf |-> FALSE]
WellFormed(j) == [wf |-> TRUE, j |-> j]

\* json.loads on a value that holds no object
PyScalar(j) ==
    IF j.j = "null" THEN None
    ELSE IF j.j = "number" THEN Num(j.v)
    ELSE List({j.items[i] : i \in 1..Len(j.items)})

\* The last member with key k (a repeated key keeps its last value)
LastOf(members, k) ==
    members[CHOOSE i \in 1..Len(members) :
                /\ members[i].key = k
                /\ \A h \in (i + 1)..Len(members) : members[h].key # k].value

\* json.loads on a band value
PyBand(j) ==
    IF j.j = "object"
    THEN Dict([k \in {j.members[i].key : i \in 1..Len(j.members)} |->
                    PyScalar(LastOf(j.members, k))])
    ELSE PyScalar(j)

\* json.loads on the members of the top-level object, in document order
RECURSIVE PyEntries(_, _)
PyEntries(members, n) ==
    IF n = 0 THEN << >>
    ELSE LET rest == PyEntries(members, n - 1)
             k == members[n].key
         IN  IF \E i \in 1..Len(rest) : rest[i].letter = k
             THEN [i \in 1..Len(rest) |->
                     IF rest[i].letter = k
                     THEN Entry(k, PyBand(members[n].value)) ELSE rest[i]]
             ELSE Append(rest, Entry(k, PyBand(members[n].value)))

json_loads(text) ==
    IF ~text.wf THEN [exc |-> "JSONDecodeError", isdict |-> FALSE, entries |-> << >>]
    ELSE IF text.j.j = "object"
    THEN [exc |-> "none", isdict |-> TRUE,
          entries |-> PyEntries(text.j.members, Len(text.j.members))]
    ELSE [exc |-> "none", isdict |-> FALSE, entries |-> << >>]

\* all(key in data for key in ['min', 'max', 'gpa']) for one band:
\* "TypeError" when data supports no membership test, else "ok" / "missing".
StructureOf(data) ==
    IF data.t = "dict"
    THEN IF {"min", "max", "gpa"} \subseteq DOMAIN data.d THEN "ok" ELSE "missing"
    ELSE IF data.t = "list"
    THEN IF {"min", "max", "gpa"} \subseteq data.e THEN "ok" ELSE "missing"
    ELSE "TypeError"

RECURSIVE StructureLoop(_, _)
StructureLoop(entries, i) ==
    IF i > Len(entries) THEN "ok"
    ELSE IF StructureOf(entries[i].data) # "ok" THEN StructureOf(entries[i].data)
    ELSE StructureLoop(entries, i + 1)

\* GradingScale.import_scale: the scale the call leaves behind, the
\* exception that reaches the caller ("none" when the call returns),
\* whether "Error importing scale" was printed and whether the success
\* message was printed.
import_scale(sc, text) ==
    LET loaded == json_loads(text)
        outcome(s, e, r, ok) == [scale |-> s, exc |-> e, reported |-> r, installed |-> ok]
    IN  IF loaded.exc = "JSONDecodeError" THEN outcome(sc, "none", TRUE, FALSE)
        ELSE IF ~loaded.isdict THEN outcome(sc, "AttributeError", FALSE, FALSE)
        ELSE IF StructureLoop(loaded.entries, 1) = "TypeError"
        THEN outcome(sc, "TypeError", FALSE, FALSE)
        ELSE IF StructureLoop(loaded.entries, 1) = "missing"
        THEN outcome(sc, "none", TRUE, FALSE)
        ELSE LET v == _validate_scale(loaded.entries)
             IN  IF v.exc = "ValueError" THEN outcome(loaded.entries, "none", TRUE, FALSE)
                 ELSE IF v.exc # "none" THEN outcome(loaded.entries, v.exc, FALSE, FALSE)
                 ELSE outcome(loaded.entries, "none", FALSE, TRUE)

---------------------------------------------------------------------------
(* Inputs of the grading-scale operations *)

BandObj(mn, mx, g) ==
    JObj(<<Member("min", mn), Member("max", mx), Member("gpa", g)>>)
JInt(i) == JNum(Int2Rat(i))

Texts == {
    Malformed,
    WellFormed(JArr(<< >>)),
    WellFormed(JInt(5)),
    WellFormed(JNull),
    WellFormed(JObj(<< >>)),
    WellFormed(JObj(<<Member("A", JInt(5))>>)),
    WellFormed(JObj(<<Member("A", JArr(<<"min", "max", "gpa">>))>>)),
    WellFormed(JObj(<<Member("A", JArr(<<"min">>))>>)),
    WellFormed(JObj(<<Member("A", JObj(<<Member("min", JInt(1)), Member("max", JInt(2))>>))>>)),
    WellFormed(JObj(<<Member("A", BandObj(JInt(50), JInt(40), JInt(1)))>>)),
    WellFormed(JObj(<<Member("A", BandObj(JInt(0), JInt(100), JInt(9)))>>)),
    WellFormed(JObj(<<Member("A", BandObj(JInt(0), JInt(100), JInt(4)))>>)),
    WellFormed(JObj(<<Member("A", BandObj(JNull, JInt(100), JInt(4)))>>)),
    WellFormed(JObj(<<Member("P", BandObj(JInt(60), JInt(100), JInt(4)))>>)),
    WellFormed(JObj(<<Member("P", BandObj(JInt(50), JInt(100), JInt(4))),
                      Member("F", BandObj(JInt(0), JInt(60), JInt(1)))>>)),
    WellFormed(JObj(<<Member("A", BandObj(JInt(0), JInt(10), JInt(4))),
                      Member("F", BandObj(JInt(0), JInt(5), JInt(1))),
                      Member("A", BandObj(JInt(0), JInt(100), JInt(2)))>>)) }

UpdateLetters == {"A+", "E"}

\* (min, max, gpa) arguments of update_grade
UpdateArgs == {
    <<Int2Rat(98), Int2Rat(100), Int2Rat(5)>>,
    <<Int2Rat(50), Int2Rat(40), Int2Rat(5)>>,
    <<Int2Rat(0), Int2Rat(100), Int2Rat(6)>>,
    <<Int2Rat(0), Int2Rat(100), Int2Rat(-1)>>,
    <<Int2Rat(45), Int2Rat(100), Int2Rat(3)>>,
    <<Int2Rat(97), Int2Rat(98), Rat(49, 10)>> }

\* percentages looked up on a mutated scale
Probes == { Int2Rat(-5), Zero, Rat(7999, 200), Int2Rat(50), Int2Rat(55),
            Rat(8999, 100), Int2Rat(95), Rat(9699, 100),
            Rat(195, 2), Int2Rat(99), Hundred, Int2Rat(150) }

---------------------------------------------------------------------------
(* State *)

NoAssignment == [t |-> "none"]

\* main() before the first choice is read: no choice, and no name or weight
\* entered in get_assignment_details
NoLocals == [choice |-> << >>, name |-> << >>, weight |-> Zero]

\* A fresh GradeCalculator: the default scale and two empty lists.
Init ==
    /\ scale = DefaultScale
    /\ formative_assignments = << >>
    /\ summative_assignments = << >>
    /\ assignment = NoAssignment
    /\ last = [op |-> "init"]
    /\ pc = "menu"
    /\ locals = NoLocals

---------------------------------------------------------------------------
(* Calls on the grading scale *)

UpdateGrade ==
    \E letter \in UpdateLetters, a \in UpdateArgs :
        LET r == update_grade(scale, letter, a[1], a[2], a[3])
        IN  /\ scale' = r.scale
            /\ last' = [op |-> "update_grade", letter |-> letter, min |-> a[1],
                        max |-> a[2], gpa |-> a[3], exc |-> r.exc]
            /\ UNCHANGED <<pc, locals, formative_assignments, summative_assignments, assignment>>

ImportScale ==
    \E text \in Texts :
        LET r == import_scale(scale, text)
        IN  /\ scale' = r.scale
            /\ last' = [op |-> "import_scale", text |-> text, exc |-> r.exc,
                        reported |-> r.reported, installed |-> r.installed]
            /\ UNCHANGED <<pc, locals, formative_assignments, summative_assignments, assignment>>

PercentageToGrade ==
    \E p \in Probes :
        /\ last' = [op |-> "percentage_to_grade", p |-> p,
                    res |-> percentage_to_grade(scale, p)]
        /\ UNCHANGED <<pc, locals, scale, formative_assignments, summative_assignments, assignment>>

ScaleNext == UpdateGrade \/ ImportScale \/ PercentageToGrade

ScaleSpec == Init /\ [][ScaleNext]_vars

\* Lookups on the default scale over a grid of GridRes steps per percent,
\* from one percent below 0 to one percent above 100.
GridRes == 200

LookupInit ==
    /\ scale = DefaultScale
    /\ formative_assignments = << >>
    /\ summative_assignments = << >>
    /\ assignment = NoAssignment
    /\ pc = "menu"
    /\ locals = NoLocals
    /\ \E k \in (-GridRes)..(101 * GridRes) :
            last = [op |-> "argument", p |-> Rat(k, GridRes)]

GridLookup ==
    /\ last.op = "argument"
    /\ last' = [op |-> "percentage_to_grade", p |-> last.p,
                res |-> percentage_to_grade(scale, last.p)]
    /\ UNCHANGED <<pc, locals, scale, formative_assignments, summative_assignments, assignment>>

LookupSpec == LookupInit /\ [][GridLookup]_vars

---------------------------------------------------------------------------
(* Properties of the grading scale *)

\* data is a well-typed band whose [min, max] contains p
Contains(data, p) ==
    /\ data.t = "dict"
    /\ {"min", "max"} \subseteq DOMAIN data.d
    /\ data.d.min.t = "num" /\ data.d.max.t = "num"
    /\ RLeq(data.d.min.v, p) /\ RLeq(p, data.d.max.v)

\* C1: on the default scale every p in [0,100], fractional values included,
\* is mapped to the (gpa, letter) of a configured band that contains p, and
\* the fallback branch is not taken.
C1_DefaultScaleCovers ==
    (/\ last.op = "percentage_to_grade"
     /\ scale = DefaultScale
     /\ RLeq(Zero, last.p) /\ RLeq(last.p, Hundred))
    => /\ last.res.exc = "none"
       /\ ~last.res.warned
       /\ \E i \in 1..Len(scale) :
            /\ scale[i].letter = last.res.letter
            /\ scale[i].data.d.gpa = last.res.gpa
            /\ Contains(scale[i].data, last.p)

\* C2: an update_grade call with min > max or gpa outside [0, max_gpa] fails
\* with a validation error and leaves the scale as it was before the call.
C2_UpdateAtomicOnFailure ==
    [][(/\ last'.op = "update_grade"
        /\ \/ RLt(last'.max, last'.min)
           \/ RLt(last'.gpa, Zero)
           \/ RLt(max_gpa, last'.gpa))
       => (last'.exc = "ValueError" /\ scale' = scale)]_vars

\* C3: an import_scale call that does not install the imported scale leaves
\* the live scale as it was before the call.
C3_FailedImportKeepsScale ==
    [][(last'.op = "import_scale" /\ ~last'.installed) => scale' = scale]_vars

\* C9: percentage_to_grade returns normally on every scale reachable through
\* update_grade and import_scale, and returns (1.0, 'F') when no band
\* contains the clamped percentage.
C9_LookupNeverCrashes ==
    last.op = "percentage_to_grade"
    => /\ last.res.exc = "none"
       /\ (\A i \in 1..Len(scale) : ~Contains(scale[i].data, Clamp(last.p)))
            => (last.res.gpa = Num(Int2Rat(1)) /\ last.res.letter = "F")

\* C10: import_scale returns normally for every input text, having either
\* installed the scale or reported an error.
C10_ImportNeverRaises ==
    last.op = "import_scale"
    => (last.exc = "none" /\ (last.installed \/ last.reported))

---------------------------------------------------------------------------
(* Assignment.  A name is a sequence of characters. *)

IsSpace(ch) == ch = " "
IsAlpha(ch) == ch \in {"Q", "z"}

RECURSIVE LStrip(_)
LStrip(name) ==
    IF name # << >> /\ IsSpace(Head(name)) THEN LStrip(Tail(name)) ELSE name

RECURSIVE RStrip(_)
RStrip(name) ==
    IF name # << >> /\ IsSpace(name[Len(name)])
    THEN RStrip(SubSeq(name, 1, Len(name) - 1)) ELSE name

\* str.strip()
Strip(name) == RStrip(LStrip(name))

\* Each validator gives the exception it raises ("none") and the value it
\* returns.
_validate_name(name) ==
    IF Strip(name) = << >> THEN [exc |-> "ValueError", val |-> << >>]
    ELSE [exc |-> "none", val |-> Strip(name)]

_validate_weight(weight) ==
    IF RLeq(weight, Zero) \/ RLt(Hundred, weight)
    THEN [exc |-> "ValueError", val |-> weight]
    ELSE [exc |-> "none", val |-> weight]

_validate_grade(grade) ==
    IF RLt(grade, Zero) \/ RLt(Hundred, grade)
    THEN [exc |-> "ValueError", val |-> grade]
    ELSE [exc |-> "none", val |-> grade]

calculate_points(grade, weight) == RDiv(RMul(grade, weight), Hundred)

\* Assignment.__init__ followed by the subclass __init__ that sets
\* assignment_type: the exception raised ("none") and the object built.
Assignment_init(assignment_type, name, weight, grade) ==
    IF _validate_name(name).exc # "none"
    THEN [exc |-> _validate_name(name).exc, obj |-> NoAssignment]
    ELSE IF _validate_weight(weight).exc # "none"
    THEN [exc |-> _validate_weight(weight).exc, obj |-> NoAssignment]
    ELSE IF _validate_grade(grade).exc # "none"
    THEN [exc |-> _validate_grade(grade).exc, obj |-> NoAssignment]
    ELSE [exc |-> "none",
          obj |-> [t |-> "assignment",
                   name |-> _validate_name(name).val,
                   weight |-> _validate_weight(weight).val,
                   grade |-> _validate_grade(grade).val,
                   points |-> calculate_points(_validate_grade(grade).val,
                                               _validate_weight(weight).val),
                   assignment_type |-> assignment_type]]

\* Assignment.update_grade / update_weight on an object: the exception
\* raised ("none") and the object afterwards.
Assignment_update_grade(obj, new_grade) ==
    IF _validate_grade(new_grade).exc # "none"
    THEN [exc |-> _validate_grade(new_grade).exc, obj |-> obj]
    ELSE [exc |-> "none",
          obj |-> [obj EXCEPT !.grade = _validate_grade(new_grade).val,
                              !.points = calculate_points(
                                            _validate_grade(new_grade).val, obj.weight)]]

\* update_weight that leaves the points of the old weight
Assignment_update_weight_StalePoints(obj, new_weight) ==
    IF _validate_weight(new_weight).exc # "none"
    THEN [exc |-> _validate_weight(new_weight).exc, obj |-> obj]
    ELSE [exc |-> "none",
          obj |-> [obj EXCEPT !.weight = _validate_weight(new_weight).val]]

Assignment_update_weight(obj, new_weight) ==
    IF _validate_weight(new_weight).exc # "none"
    THEN [exc |-> _validate_weight(new_weight).exc, obj |-> obj]
    ELSE [exc |-> "none",
          obj |-> [obj EXCEPT !.weight = _validate_weight(new_weight).val,
                              !.points = calculate_points(
                                            obj.grade, _validate_weight(new_weight).val)]]

(* Inputs of the Assignment operations *)

Names == { << >>, <<" ">>, <<"1", "2", "3">>, <<"Q", "1">>,
           <<" ", "Q", "1", " ">>, <<"z">> }
Weights == { Zero, Rat(1, 2), Hundred, Int2Rat(150) }
Grades == { Int2Rat(-1), Zero, Rat(99, 2), Hundred, Int2Rat(101) }
AssignmentTypes == {"FA", "SA"}

Construct ==
    \E ty \in AssignmentTypes, name \in Names, weight \in Weights, grade \in Grades :
        LET r == Assignment_init(ty, name, weight, grade)
        IN  /\ assignment' = IF r.exc = "none" THEN r.obj ELSE assignment
            /\ last' = [op |-> "Assignment", name |-> name, weight |-> weight,
                        grade |-> grade, exc |-> r.exc]
            /\ UNCHANGED <<pc, locals, scale, formative_assignments, summative_assignments>>

AssignmentUpdateGrade ==
    /\ assignment # NoAssignment
    /\ \E new_grade \in Grades :
        LET r == Assignment_update_grade(assignment, new_grade)
        IN  /\ assignment' = r.obj
            /\ last' = [op |-> "Assignment.update_grade", grade |-> new_grade,
                        exc |-> r.exc]
            /\ UNCHANGED <<pc, locals, scale, formative_assignments, summative_assignments>>

AssignmentUpdateWeight ==
    /\ assignment # NoAssignment
    /\ \E new_weight \in Weights :
        LET r == Assignment_update_weight(assignment, new_weight)
        IN  /\ assignment' = r.obj
            /\ last' = [op |-> "Assignment.update_weight", weight |-> new_weight,
                        exc |-> r.exc]
            /\ UNCHANGED <<pc, locals, scale, formative_assignments, summative_assignments>>

AssignmentNext == Construct \/ AssignmentUpdateGrade \/ AssignmentUpdateWeight

AssignmentSpec == Init /\ [][AssignmentNext]_vars

\* C4: construction succeeds if and only if the name is non-empty after
\* trimming and holds at least one alphabetic character, the weight is in
\* (0,100] and the grade is in [0,100].
C4_ConstructionValidates ==
    last.op = "Assignment"
    => (last.exc = "none"
        <=> /\ Strip(last.name) # << >>
            /\ \E i \in 1..Len(last.name) : IsAlpha(last.name[i])
            /\ RLt(Zero, last.weight) /\ RLeq(last.weight, Hundred)
            /\ RLeq(Zero, last.grade) /\ RLeq(last.grade, Hundred))

---------------------------------------------------------------------------
(* GPACalculator *)

RECURSIVE SumPoints(_, _)
SumPoints(assignments, n) ==
    IF n = 0 THEN Zero
    ELSE RAdd(SumPoints(assignments, n - 1), assignments[n].points)

RECURSIVE SumWeight(_, _)
SumWeight(assignments, n) ==
    IF n = 0 THEN Zero
    ELSE RAdd(SumWeight(assignments, n - 1), assignments[n].weight)

\* calculate_category_gpa that takes the weights to sum to 100
calculate_category_gpa_Unnormalised(sc, assignments) ==
    IF assignments = << >>
    THEN [total_percentage |-> Zero, gpa |-> Num(Zero), letter_grade |-> "N/A",
          total_weight |-> Zero, weighted_points |-> Zero]
    ELSE LET total_points == SumPoints(assignments, Len(assignments))
             total_weight == SumWeight(assignments, Len(assignments))
             percentage == Clamp(total_points)
             g == percentage_to_grade(sc, percentage)
         IN  [total_percentage |-> percentage, gpa |-> g.gpa, letter_grade |-> g.letter,
              total_weight |-> total_weight, weighted_points |-> total_points]

calculate_category_gpa(sc, assignments) ==
    IF assignments = << >>
    THEN [total_percentage |-> Zero, gpa |-> Num(Zero), letter_grade |-> "N/A",
          total_weight |-> Zero, weighted_points |-> Zero]
    ELSE LET total_points == SumPoints(assignments, Len(assignments))
             total_weight == SumWeight(assignments, Len(assignments))
             percentage == Clamp(IF total_weight = Zero THEN Zero
                                 ELSE RMul(RDiv(total_points, total_weight), Hundred))
             g == percentage_to_grade(sc, percentage)
         IN  [total_percentage |-> percentage, gpa |-> g.gpa, letter_grade |-> g.letter,
              total_weight |-> total_weight, weighted_points |-> total_points]

\* calculate_overall_gpa that averages even when one category is 0
calculate_overall_gpa_AlwaysMean(sc, fa_result, sa_result) ==
    LET overall_percentage ==
            RDiv(RAdd(fa_result.total_percentage, sa_result.total_percentage),
                 Int2Rat(2))
        g == percentage_to_grade(sc, overall_percentage)
    IN  [overall_percentage |-> overall_percentage, overall_gpa |-> g.gpa,
         overall_letter |-> g.letter, fa_data |-> fa_result, sa_data |-> sa_result]

calculate_overall_gpa(sc, fa_result, sa_result) ==
    LET fa_percentage == fa_result.total_percentage
        sa_percentage == sa_result.total_percentage
        overall_percentage ==
            IF fa_percentage = Zero /\ sa_percentage = Zero THEN Zero
            ELSE IF fa_percentage = Zero THEN sa_percentage
            ELSE IF sa_percentage = Zero THEN fa_percentage
            ELSE RDiv(RAdd(fa_percentage, sa_percentage), Int2Rat(2))
        g == percentage_to_grade(sc, overall_percentage)
    IN  [overall_percentage |-> overall_percentage, overall_gpa |-> g.gpa,
         overall_letter |-> g.letter, fa_data |-> fa_result, sa_data |-> sa_result]

---------------------------------------------------------------------------
(* GradeCalculator *)

\* add_formative_assignment that puts the new assignment first
add_formative_assignment_Prepends(formative, name, weight, grade) ==
    LET r == Assignment_init("FA", name, weight, grade)
    IN  IF r.exc = "ValueError" THEN [list |-> formative, returned |-> FALSE]
        ELSE [list |-> <<r.obj>> \o formative, returned |-> TRUE]

\* add_summative_assignment that puts the new assignment first
add_summative_assignment_Prepends(summative, name, weight, grade) ==
    LET r == Assignment_init("SA", name, weight, grade)
    IN  IF r.exc = "ValueError" THEN [list |-> summative, returned |-> FALSE]
        ELSE [list |-> <<r.obj>> \o summative, returned |-> TRUE]

\* add_formative_assignment: the list afterwards and the value returned
add_formative_assignment(formative, name, weight, grade) ==
    LET r == Assignment_init("FA", name, weight, grade)
    IN  IF r.exc = "ValueError" THEN [list |-> formative, returned |-> FALSE]
        ELSE [list |-> Append(formative, r.obj), returned |-> TRUE]

add_summative_assignment(summative, name, weight, grade) ==
    LET r == Assignment_init("SA", name, weight, grade)
    IN  IF r.exc = "ValueError" THEN [list |-> summative, returned |-> FALSE]
        ELSE [list |-> Append(summative, r.obj), returned |-> TRUE]

\* _determine_pass_fail that passes the course on the mean of the two
\* category percentages
_determine_pass_fail_OnMean(formative, summative, fa_data, sa_data) ==
    LET fa_percentage == fa_data.total_percentage
        sa_percentage == sa_data.total_percentage
        has_fa == Len(formative) > 0
        has_sa == Len(summative) > 0
        mean == RDiv(RAdd(fa_percentage, sa_percentage), Int2Rat(2))
    IN  IF has_fa /\ has_sa
        THEN IF is_passing(mean)
             THEN [headline |-> "PASSED", category |-> "", meets |-> TRUE,
                   fa_below |-> FALSE, sa_below |-> FALSE]
             ELSE [headline |-> "REPEAT", category |-> "", meets |-> FALSE,
                   fa_below |-> ~is_passing(fa_percentage),
                   sa_below |-> ~is_passing(sa_percentage)]
        ELSE IF has_fa \/ has_sa
        THEN [headline |-> "PROGRESS",
              category |-> IF has_fa THEN "FA" ELSE "SA",
              meets |-> is_passing(IF has_fa THEN fa_percentage ELSE sa_percentage),
              fa_below |-> FALSE, sa_below |-> FALSE]
        ELSE [headline |-> "NONE", category |-> "", meets |-> FALSE,
              fa_below |-> FALSE, sa_below |-> FALSE]

\* _determine_pass_fail: what the report prints about passing.
\*   headline "PASSED" / "REPEAT": the overall verdict (both lists non-empty)
\*   headline "PROGRESS": only the status of the one category that has
\*       assignments, named by category, meets telling whether it passes
\*   headline "NONE": no verdict
_determine_pass_fail(formative, summative, fa_data, sa_data) ==
    LET fa_percentage == fa_data.total_percentage
        sa_percentage == sa_data.total_percentage
        has_fa == Len(formative) > 0
        has_sa == Len(summative) > 0
    IN  IF has_fa /\ has_sa
        THEN IF is_passing(fa_percentage) /\ is_passing(sa_percentage)
             THEN [headline |-> "PASSED", category |-> "", meets |-> TRUE,
                   fa_below |-> FALSE, sa_below |-> FALSE]
             ELSE [headline |-> "REPEAT", category |-> "", meets |-> FALSE,
                   fa_below |-> ~is_passing(fa_percentage),
                   sa_below |-> ~is_passing(sa_percentage)]
        ELSE IF has_fa \/ has_sa
        THEN [headline |-> "PROGRESS",
              category |-> IF has_fa THEN "FA" ELSE "SA",
              meets |-> is_passing(IF has_fa THEN fa_percentage ELSE sa_percentage),
              fa_below |-> FALSE, sa_below |-> FALSE]
        ELSE [headline |-> "NONE", category |-> "", meets |-> FALSE,
              fa_below |-> FALSE, sa_below |-> FALSE]

has_assignments(formative, summative) == Len(formative) > 0 \/ Len(summative) > 0

\* generate_report: the three results it computes and the pass/fail text
generate_report(sc, formative, summative) ==
    LET fa_result == calculate_category_gpa(sc, formative)
        sa_result == calculate_category_gpa(sc, summative)
        overall_result == calculate_overall_gpa(sc, fa_result, sa_result)
    IN  [fa_result |-> fa_result, sa_result |-> sa_result,
         overall_result |-> overall_result,
         verdict |-> _determine_pass_fail(formative, summative,
                                          overall_result.fa_data, overall_result.sa_data)]

\* A line typed at a float(input(...)) prompt: a number or something else
Typed(r) == [isnum |-> TRUE, v |-> r]
NotANumber == [isnum |-> FALSE]

\* quick_gpa_calculation: "invalid" (float() raised ValueError), "range"
\* (a score outside [0,100]) or "ok" with the overall result.
quick_gpa_calculation(sc, fa_input, sa_input) ==
    IF ~fa_input.isnum \/ ~sa_input.isnum THEN [outcome |-> "invalid"]
    ELSE IF ~(RLeq(Zero, fa_input.v) /\ RLeq(fa_input.v, Hundred))
            \/ ~(RLeq(Zero, sa_input.v) /\ RLeq(sa_input.v, Hundred))
    THEN [outcome |-> "range"]
    ELSE LET fa_result == [total_percentage |-> fa_input.v,
                           gpa |-> percentage_to_grade(sc, fa_input.v).gpa,
                           letter_grade |-> percentage_to_grade(sc, fa_input.v).letter]
             sa_result == [total_percentage |-> sa_input.v,
                           gpa |-> percentage_to_grade(sc, sa_input.v).gpa,
                           letter_grade |-> percentage_to_grade(sc, sa_input.v).letter]
         IN  [outcome |-> "ok",
              overall_result |-> calculate_overall_gpa(sc, fa_result, sa_result)]

(* Inputs of the GradeCalculator operations *)

\* at most MaxAssignments assignments are added in a session
MaxAssignments == 2

\* (name, weight, grade) arguments of the add operations
AddArgs ==
    ({<<"Q", "1">>} \X {Int2Rat(40), Hundred}
                    \X {Zero, Int2Rat(40), Int2Rat(60), Int2Rat(80)})
    \cup { << <<" ">>, Int2Rat(40), Int2Rat(80) >>,
           << <<"Q", "1">>, Zero, Int2Rat(80) >>,
           << <<"Q", "1">>, Int2Rat(150), Int2Rat(80) >>,
           << <<"Q", "1">>, Int2Rat(40), Int2Rat(101) >> }

QuickInputs == { Typed(Zero), Typed(Int2Rat(60)), Typed(Int2Rat(80)),
                 Typed(Int2Rat(101)), NotANumber }

AddFormative ==
    \E a \in AddArgs :
        LET r == add_formative_assignment(formative_assignments, a[1], a[2], a[3])
        IN  /\ Len(r.list) + Len(summative_assignments) <= MaxAssignments
            /\ formative_assignments' = r.list
            /\ last' = [op |-> "add_formative_assignment", name |-> a[1],
                        weight |-> a[2], grade |-> a[3], returned |-> r.returned]
            /\ UNCHANGED <<pc, locals, scale, summative_assignments, assignment>>

AddSummative ==
    \E a \in AddArgs :
        LET r == add_summative_assignment(summative_assignments, a[1], a[2], a[3])
        IN  /\ Len(formative_assignments) + Len(r.list) <= MaxAssignments
            /\ summative_assignments' = r.list
            /\ last' = [op |-> "add_summative_assignment", name |-> a[1],
                        weight |-> a[2], grade |-> a[3], returned |-> r.returned]
            /\ UNCHANGED <<pc, locals, scale, formative_assignments, assignment>>

GenerateReport ==
    /\ last' = [op |-> "generate_report",
                report |-> generate_report(scale, formative_assignments,
                                           summative_assignments)]
    /\ UNCHANGED <<pc, locals, scale, formative_assignments, summative_assignments, assignment>>

QuickGpa ==
    \E fa_input \in QuickInputs, sa_input \in QuickInputs :
        /\ last' = [op |-> "quick_gpa_calculation", fa_input |-> fa_input,
                    sa_input |-> sa_input,
                    quick |-> quick_gpa_calculation(scale, fa_input, sa_input)]
        /\ UNCHANGED <<pc, locals, scale, formative_assignments, summative_assignments, assignment>>

Next == AddFormative \/ AddSummative \/ GenerateReport \/ QuickGpa

Spec == Init /\ [][Next]_vars

---------------------------------------------------------------------------
(* Properties of the aggregation and of the session *)

\* sum of w_i * g_i / 100 and of w_i over the first n assignments of a list
RECURSIVE WeightedSum(_, _)
WeightedSum(list, n) ==
    IF n = 0 THEN Zero
    ELSE RAdd(WeightedSum(list, n - 1),
              Rat(list[n].weight.n * list[n].grade.n,
                  100 * list[n].weight.d * list[n].grade.d))

RECURSIVE WeightSum(_, _)
WeightSum(list, n) ==
    IF n = 0 THEN Zero ELSE RAdd(WeightSum(list, n - 1), list[n].weight)

\* the category result the claim prescribes for a list
CategoryAsClaimed(list, result) ==
    IF list = << >>
    THEN result = [total_percentage |-> Zero, gpa |-> Num(Zero),
                   letter_grade |-> "N/A", total_weight |-> Zero,
                   weighted_points |-> Zero]
    ELSE LET points == WeightedSum(list, Len(list))
             weight == WeightSum(list, Len(list))
             raw == Rat(points.n * weight.d * 100, points.d * weight.n)
             pct == IF RLt(raw, Zero) THEN Zero
                    ELSE IF RLt(Hundred, raw) THEN Hundred ELSE raw
         IN  /\ result.weighted_points = points
             /\ result.total_weight = weight
             /\ result.total_percentage = pct
             /\ result.gpa = percentage_to_grade(scale, pct).gpa
             /\ result.letter_grade = percentage_to_grade(scale, pct).letter

\* C5: the category result of an empty list is all zero with letter 'N/A';
\* for a non-empty list weighted_points = sum(w*g/100), total_weight =
\* sum(w), total_percentage = weighted_points / total_weight * 100 clamped
\* to [0,100], and gpa and letter are those of that percentage.
C5_CategoryResult ==
    last.op = "generate_report"
    => /\ CategoryAsClaimed(formative_assignments, last.report.fa_result)
       /\ CategoryAsClaimed(summative_assignments, last.report.sa_result)

\* a report on weights 40 and 100 (sum 140) with grades 80 and 60
C5_Witness ==
    /\ last.op = "generate_report"
    /\ Len(formative_assignments) = 2
    /\ last.report.fa_result.total_weight = Int2Rat(140)
    /\ last.report.fa_result.weighted_points = Int2Rat(92)
    /\ last.report.fa_result.total_percentage = Rat(460, 7)
    /\ last.report.fa_result.letter_grade = "B-"

\* the overall result the claim prescribes for two category percentages
OverallAsClaimed(fa, sa, o) ==
    /\ (fa = Zero /\ sa = Zero) => o.overall_percentage = Zero
    /\ (fa = Zero /\ sa # Zero) => o.overall_percentage = sa
    /\ (fa # Zero /\ sa = Zero) => o.overall_percentage = fa
    /\ (fa # Zero /\ sa # Zero)
        => o.overall_percentage = Rat(fa.n * sa.d + sa.n * fa.d, 2 * fa.d * sa.d)
    /\ o.overall_gpa = percentage_to_grade(scale, o.overall_percentage).gpa
    /\ o.overall_letter = percentage_to_grade(scale, o.overall_percentage).letter
    /\ (fa = Int2Rat(80) /\ sa = Int2Rat(60))
        => /\ o.overall_percentage = Int2Rat(70)
           /\ o.overall_letter = "B"
           /\ o.overall_gpa = Num(Int2Rat(4))

ListPasses(list) ==
    LET points == WeightedSum(list, Len(list))
        weight == WeightSum(list, Len(list))
    IN  points.n * weight.d * 100 >= 50 * points.d * weight.n

\* C7: with both lists non-empty the report says passed exactly when both
\* category percentages reach the passing threshold, whatever the overall
\* percentage; with one list non-empty it gives only that category's status;
\* with both empty it gives no verdict.
C7_PassFail ==
    last.op = "generate_report"
    => LET v == last.report.verdict
           has_fa == formative_assignments # << >>
           has_sa == summative_assignments # << >>
       IN  /\ (has_fa /\ has_sa)
                => /\ v.headline \in {"PASSED", "REPEAT"}
                   /\ v.headline = "PASSED"
                        <=> (ListPasses(formative_assignments)
                             /\ ListPasses(summative_assignments))
           /\ (has_fa /\ ~has_sa)
                => /\ v.headline = "PROGRESS" /\ v.category = "FA"
                   /\ v.meets <=> ListPasses(formative_assignments)
           /\ (~has_fa /\ has_sa)
                => /\ v.headline = "PROGRESS" /\ v.category = "SA"
                   /\ v.meets <=> ListPasses(summative_assignments)
           /\ (~has_fa /\ ~has_sa) => v.headline = "NONE"

\* a report with formative 80 and summative 40: the overall percentage 60 is
\* above the threshold and the course is still to be repeated
C7_Witness ==
    /\ last.op = "generate_report"
    /\ formative_assignments # << >> /\ summative_assignments # << >>
    /\ last.report.fa_result.total_percentage = Int2Rat(80)
    /\ last.report.sa_result.total_percentage = Int2Rat(40)
    /\ last.report.overall_result.overall_percentage = Int2Rat(60)
    /\ last.report.verdict.headline = "REPEAT"

\* the arguments fail Assignment validation
FailsValidation(name, weight, grade) ==
    \/ Strip(name) = << >>
    \/ ~(RLt(Zero, weight) /\ RLeq(weight, Hundred))
    \/ ~(RLeq(Zero, grade) /\ RLeq(grade, Hundred))

\* after is before with exactly one assignment, built from the arguments,
\* added at the end
AppendedOne(before, after, ty, name, weight, grade) ==
    /\ Len(after) = Len(before) + 1
    /\ SubSeq(after, 1, Len(before)) = before
    /\ after[Len(after)].assignment_type = ty
    /\ after[Len(after)].name = Strip(name)
    /\ after[Len(after)].weight = weight
    /\ after[Len(after)].grade = grade

\* C8: an add whose arguments fail validation returns False and leaves both
\* lists and the scale as they were; any other add returns True and appends
\* one assignment to the end of its own list, leaving the other list as it
\* was.
C8_AddStep ==
    [][/\ last'.op = "add_formative_assignment"
            => IF FailsValidation(last'.name, last'.weight, last'.grade)
               THEN /\ ~last'.returned
                    /\ UNCHANGED <<formative_assignments, summative_assignments, scale>>
               ELSE /\ last'.returned
                    /\ AppendedOne(formative_assignments, formative_assignments',
                                   "FA", last'.name, last'.weight, last'.grade)
                    /\ UNCHANGED <<summative_assignments, scale>>
       /\ last'.op = "add_summative_assignment"
            => IF FailsValidation(last'.name, last'.weight, last'.grade)
               THEN /\ ~last'.returned
                    /\ UNCHANGED <<formative_assignments, summative_assignments, scale>>
               ELSE /\ last'.returned
                    /\ AppendedOne(summative_assignments, summative_assignments',
                                   "SA", last'.name, last'.weight, last'.grade)
                    /\ UNCHANGED <<formative_assignments, scale>>]_vars

\* an add was rejected in a session that already holds an assignment
C8_Witness ==
    /\ last.op = "add_formative_assignment"
    /\ ~last.returned
    /\ Len(formative_assignments) > 0

---------------------------------------------------------------------------
(* Further properties of the grading scale *)

\* data is a band with min <= max and 0 <= gpa <= max_gpa
ValidBand(data) ==
    /\ data.t = "dict"
    /\ {"min", "max", "gpa"} \subseteq DOMAIN data.d
    /\ data.d.min.t = "num" /\ data.d.max.t = "num" /\ data.d.gpa.t = "num"
    /\ RLeq(data.d.min.v, data.d.max.v)
    /\ RLeq(Zero, data.d.gpa.v) /\ RLeq(data.d.gpa.v, max_gpa)

\* C12: in every state reachable from a fresh scale by update_grade and
\* import_scale calls, successful or failed, every stored band has
\* min <= max and 0 <= gpa <= max_gpa.
C12_BandInvariant == \A i \in 1..Len(scale) : ValidBand(scale[i].data)

\* the first band of sc, from position i on, whose [min, max] contains p;
\* 0 when there is none
RECURSIVE FirstContaining(_, _, _)
FirstContaining(sc, p, i) ==
    IF i > Len(sc) THEN 0
    ELSE IF Contains(sc[i].data, p) THEN i
    ELSE FirstContaining(sc, p, i + 1)

\* p brought into [0,100]
Clamped(p) ==
    IF p.n > 100 * p.d THEN Hundred ELSE IF p.n < 0 THEN Zero ELSE p

\* C13: a lookup that returns gives the gpa and letter of the first band, in
\* storage order, whose [min, max] contains p clamped to [0,100]; an updated
\* letter keeps its position and a new letter is stored last; on the default
\* scale every p in the overlap of 'A' and 'A-' maps to 'A' with gpa 4.8.
C13_FirstBandWins ==
    /\ []((last.op = "percentage_to_grade" /\ last.res.exc = "none")
        => LET i == FirstContaining(scale, Clamped(last.p), 1)
           IN  /\ i # 0 => /\ last.res.letter = scale[i].letter
                           /\ last.res.gpa = scale[i].data.d.gpa
               /\ (/\ scale = DefaultScale
                   /\ RLeq(Rat(8999, 100), last.p)
                   /\ RLeq(last.p, Rat(9699, 100)))
                    => (last.res.letter = "A" /\ last.res.gpa = Num(Rat(48, 10))))
    /\ [][last'.op = "update_grade"
            => IF \E i \in 1..Len(scale) : scale[i].letter = last'.letter
               THEN /\ Len(scale') = Len(scale)
                    /\ \A i \in 1..Len(scale) : scale'[i].letter = scale[i].letter
               ELSE /\ Len(scale') = Len(scale) + 1
                    /\ scale'[Len(scale')].letter = last'.letter
                    /\ \A i \in 1..Len(scale) : scale'[i] = scale[i]]_vars

\* a letter was added to a valid scale and is stored last; a lookup of 150
\* (clamped to 100) gives 'A+', stored first, although the last band
\* contains 100 too
C13_Witness ==
    /\ last.op = "percentage_to_grade"
    /\ last.p = Int2Rat(150)
    /\ Len(scale) > 11
    /\ \A i \in 1..Len(scale) : ValidBand(scale[i].data)
    /\ scale[1].letter = "A+"
    /\ Contains(scale[1].data, Hundred)
    /\ Contains(scale[Len(scale)].data, Hundred)
    /\ last.res.letter = "A+"

---------------------------------------------------------------------------
(* Further properties of Assignment *)

\* weight in (0,100], grade in [0,100] and points = grade * weight / 100
AssignmentInvariant(obj) ==
    /\ RLt(Zero, obj.weight) /\ RLeq(obj.weight, Hundred)
    /\ RLeq(Zero, obj.grade) /\ RLeq(obj.grade, Hundred)
    /\ obj.points.n * obj.grade.d * obj.weight.d * 100
            = obj.grade.n * obj.weight.n * obj.points.d

\* C14: after construction and after every update_grade or update_weight
\* call the assignment has weight in (0,100], grade in [0,100] and points =
\* grade * weight / 100; an update with an out-of-range value fails with a
\* validation error and leaves the assignment as it was.
C14_AssignmentInvariant ==
    [][/\ assignment' # NoAssignment => AssignmentInvariant(assignment')
       /\ (/\ last'.op = "Assignment.update_grade"
           /\ ~(RLeq(Zero, last'.grade) /\ RLeq(last'.grade, Hundred)))
            => (last'.exc = "ValueError" /\ assignment' = assignment)
       /\ (/\ last'.op = "Assignment.update_weight"
           /\ ~(RLt(Zero, last'.weight) /\ RLeq(last'.weight, Hundred)))
            => (last'.exc = "ValueError" /\ assignment' = assignment)
       /\ (/\ last'.op = "Assignment.update_grade"
           /\ RLeq(Zero, last'.grade) /\ RLeq(last'.grade, Hundred))
            => (last'.exc = "none" /\ assignment'.grade = last'.grade
                /\ assignment'.weight = assignment.weight)
       /\ (/\ last'.op = "Assignment.update_weight"
           /\ RLt(Zero, last'.weight) /\ RLeq(last'.weight, Hundred))
            => (last'.exc = "none" /\ assignment'.weight = last'.weight
                /\ assignment'.grade = assignment.grade)]_vars

\* the weight of an assignment graded 49.5 was updated to 0.5: the points
\* are 0.2475
C14_Witness ==
    /\ last.op = "Assignment.update_weight"
    /\ last.exc = "none"
    /\ assignment.weight = Rat(1, 2)
    /\ assignment.grade = Rat(99, 2)
    /\ assignment.points = Rat(99, 400)

---------------------------------------------------------------------------
(* main(): the menu loop and the prompts of get_assignment_details.        *)
(* pc is the input() call the program is blocked in: "menu" (the choice),  *)
(* "name", "weight", "grade" (get_assignment_details), or "done" once      *)
(* main() has been left.  A typed line is a sequence of characters, or,    *)
(* at a float(input(...)) prompt, Typed(r) / NotANumber.                   *)

IsDigit(ch) == ch \in {"1", "2", "3", "4", "5", "6", "7"}

\* str.replace('.', '', 1)
RECURSIVE RemoveFirstDot(_)
RemoveFirstDot(name) ==
    IF name = << >> THEN << >>
    ELSE IF Head(name) = "." THEN Tail(name)
    ELSE <<Head(name)>> \o RemoveFirstDot(Tail(name))

\* str.isdigit(): non-empty and digits only
isdigit(name) == name # << >> /\ \A i \in 1..Len(name) : IsDigit(name[i])

\* the name loop of get_assignment_details accepts the stripped line
NameAccepted(name) ==
    /\ name # << >>
    /\ ~isdigit(RemoveFirstDot(name))
    /\ \E i \in 1..Len(name) : IsAlpha(name[i])
    /\ Len(name) >= 2

\* the weight loop of get_assignment_details accepts the line
WeightAccepted(line) ==
    line.isnum /\ RLt(Zero, line.v) /\ RLeq(line.v, Hundred)

\* the grade loop of get_assignment_details accepts the line
GradeAccepted(line) ==
    line.isnum /\ RLeq(Zero, line.v) /\ RLeq(line.v, Hundred)

\* the if / elif chain of main() that swaps choices 1 and 2
Dispatch_Swapped(choice) ==
    IF choice = <<"1">> THEN "add_summative"
    ELSE IF choice = <<"2">> THEN "add_formative"
    ELSE IF choice = <<"3">> THEN "report"
    ELSE IF choice = <<"4">> THEN "quick"
    ELSE IF choice = <<"5">> THEN "help"
    ELSE IF choice = <<"6">> THEN "exit"
    ELSE "invalid"

\* the if / elif chain of main(): the branch taken for a choice
Dispatch(choice) ==
    IF choice = <<"1">> THEN "add_formative"
    ELSE IF choice = <<"2">> THEN "add_summative"
    ELSE IF choice = <<"3">> THEN "report"
    ELSE IF choice = <<"4">> THEN "quick"
    ELSE IF choice = <<"5">> THEN "help"
    ELSE IF choice = <<"6">> THEN "exit"
    ELSE "invalid"

(* Lines typed at the prompts *)

ChoiceLines == { <<"1">>, <<"2">>, <<"3">>, <<"4">>, <<"5">>, <<"6">>,
                 <<"7">>, <<" ", "1">>, <<"Q">>, << >> }
NameLines == { << >>, <<" ">>, <<"1", "2", "3">>, <<"1", ".", "5">>, <<".">>,
               <<"Q">>, <<"Q", "1">>, <<" ", "Q", "1", " ">> }
WeightLines == { Typed(Zero), Typed(Int2Rat(40)), Typed(Hundred),
                 Typed(Int2Rat(150)), NotANumber }
GradeLines == { Typed(Zero), Typed(Int2Rat(40)), Typed(Int2Rat(60)),
                Typed(Int2Rat(80)), Typed(Int2Rat(101)), NotANumber }

\* choice 1 or 2: main() calls get_assignment_details, which prompts for
\* the name
ChooseAdd ==
    /\ pc = "menu"
    /\ Len(formative_assignments) + Len(summative_assignments) < MaxAssignments
    /\ \E line \in ChoiceLines :
        /\ Dispatch(Strip(line)) \in {"add_formative", "add_summative"}
        /\ locals' = [NoLocals EXCEPT !.choice = Strip(line)]
    /\ pc' = "name"
    /\ last' = [op |-> "get_assignment_details"]
    /\ UNCHANGED <<scale, formative_assignments, summative_assignments, assignment>>

EnterName ==
    /\ pc = "name"
    /\ \E line \in NameLines :
        IF NameAccepted(Strip(line))
        THEN /\ pc' = "weight"
             /\ locals' = [locals EXCEPT !.name = Strip(line)]
             /\ last' = [op |-> "input", accepted |-> TRUE]
        ELSE /\ pc' = "name"
             /\ locals' = locals
             /\ last' = [op |-> "input", accepted |-> FALSE]
    /\ UNCHANGED <<scale, formative_assignments, summative_assignments, assignment>>

EnterWeight ==
    /\ pc = "weight"
    /\ \E line \in WeightLines :
        IF WeightAccepted(line)
        THEN /\ pc' = "grade"
             /\ locals' = [locals EXCEPT !.weight = line.v]
             /\ last' = [op |-> "input", accepted |-> TRUE]
        ELSE /\ pc' = "weight"
             /\ locals' = locals
             /\ last' = [op |-> "input", accepted |-> FALSE]
    /\ UNCHANGED <<scale, formative_assignments, summative_assignments, assignment>>

\* the grade prompt; an accepted grade ends get_assignment_details and
\* main() calls the add operation of the branch it is in
EnterGrade ==
    /\ pc = "grade"
    /\ \E line \in GradeLines :
        IF ~GradeAccepted(line)
        THEN /\ pc' = "grade"
             /\ locals' = locals
             /\ last' = [op |-> "input", accepted |-> FALSE]
             /\ UNCHANGED <<formative_assignments, summative_assignments>>
        ELSE /\ pc' = "menu"
             /\ locals' = [NoLocals EXCEPT !.choice = locals.choice]
             /\ IF Dispatch(locals.choice) = "add_formative"
                THEN LET r == add_formative_assignment(formative_assignments,
                                    locals.name, locals.weight, line.v)
                     IN  /\ formative_assignments' = r.list
                         /\ last' = [op |-> "add_formative_assignment",
                                     name |-> locals.name, weight |-> locals.weight,
                                     grade |-> line.v, returned |-> r.returned]
                         /\ UNCHANGED summative_assignments
                ELSE LET r == add_summative_assignment(summative_assignments,
                                    locals.name, locals.weight, line.v)
                     IN  /\ summative_assignments' = r.list
                         /\ last' = [op |-> "add_summative_assignment",
                                     name |-> locals.name, weight |-> locals.weight,
                                     grade |-> line.v, returned |-> r.returned]
                         /\ UNCHANGED formative_assignments
    /\ UNCHANGED <<scale, assignment>>

\* choice 3
ChooseReport ==
    /\ pc = "menu"
    /\ \E line \in ChoiceLines :
        /\ Dispatch(Strip(line)) = "report"
        /\ locals' = [NoLocals EXCEPT !.choice = Strip(line)]
    /\ last' = IF ~has_assignments(formative_assignments, summative_assignments)
               THEN [op |-> "main", printed |-> "no assignments yet"]
               ELSE [op |-> "generate_report",
                     report |-> generate_report(scale, formative_assignments,
                                                summative_assignments)]
    /\ UNCHANGED <<pc, scale, formative_assignments, summative_assignments, assignment>>

\* choice 4
ChooseQuick ==
    /\ pc = "menu"
    /\ \E line \in ChoiceLines :
        /\ Dispatch(Strip(line)) = "quick"
        /\ locals' = [NoLocals EXCEPT !.choice = Strip(line)]
    /\ \E fa_input \in QuickInputs, sa_input \in QuickInputs :
        last' = [op |-> "quick_gpa_calculation", fa_input |-> fa_input,
                 sa_input |-> sa_input,
                 quick |-> quick_gpa_calculation(scale, fa_input, sa_input)]
    /\ UNCHANGED <<pc, scale, formative_assignments, summative_assignments, assignment>>

\* choice 5
ChooseHelp ==
    /\ pc = "menu"
    /\ \E line \in ChoiceLines :
        /\ Dispatch(Strip(line)) = "help"
        /\ locals' = [NoLocals EXCEPT !.choice = Strip(line)]
    /\ last' = [op |-> "show_help"]
    /\ UNCHANGED <<pc, scale, formative_assignments, summative_assignments, assignment>>

\* choice 6: break
ChooseExit ==
    /\ pc = "menu"
    /\ \E line \in ChoiceLines :
        /\ Dispatch(Strip(line)) = "exit"
        /\ locals' = [NoLocals EXCEPT !.choice = Strip(line)]
    /\ pc' = "done"
    /\ last' = [op |-> "main", printed |-> "goodbye"]
    /\ UNCHANGED <<scale, formative_assignments, summative_assignments, assignment>>

\* any other choice
ChooseInvalid ==
    /\ pc = "menu"
    /\ \E line \in ChoiceLines :
        /\ Dispatch(Strip(line)) = "invalid"
        /\ locals' = [NoLocals EXCEPT !.choice = Strip(line)]
    /\ last' = [op |-> "main", printed |-> "not a valid choice"]
    /\ UNCHANGED <<pc, scale, formative_assignments, summative_assignments, assignment>>

\* Ctrl-C at any prompt: KeyboardInterrupt leaves main() and is caught at
\* the entry point
KeyboardInterrupt ==
    /\ pc # "done"
    /\ pc' = "done"
    /\ last' = [op |-> "KeyboardInterrupt"]
    /\ UNCHANGED <<locals, scale, formative_assignments, summative_assignments,
                   assignment>>

MainNext ==
    \/ ChooseAdd \/ EnterName \/ EnterWeight \/ EnterGrade
    \/ ChooseReport \/ ChooseQuick \/ ChooseHelp \/ ChooseExit \/ ChooseInvalid
    \/ KeyboardInterrupt

MainSpec == Init /\ [][MainNext]_vars

---------------------------------------------------------------------------
(* Properties of the menu loop *)

SessionUnchanged ==
    UNCHANGED <<scale, formative_assignments, summative_assignments>>

\* C11: from the menu, choices 1 to 6 lead to add formative, add summative,
\* view report, quick GPA calculator, help and exit; any other input changes
\* no session state and returns to the menu; main() is left only on choice
\* 6 or on an interrupt; choice 3 with both lists empty produces no report.
C11_MenuLoop ==
    [][/\ (pc = "menu" /\ last'.op # "KeyboardInterrupt")
            => LET choice == locals'.choice
               IN  /\ choice \in {<<"1">>, <<"2">>}
                        => (pc' = "name" /\ SessionUnchanged)
                   /\ choice = <<"3">>
                        => /\ pc' = "menu" /\ SessionUnchanged
                           /\ last'.op = "generate_report"
                                <=> (formative_assignments # << >>
                                     \/ summative_assignments # << >>)
                   /\ choice = <<"4">>
                        => /\ pc' = "menu" /\ SessionUnchanged
                           /\ last'.op = "quick_gpa_calculation"
                   /\ choice = <<"5">>
                        => /\ pc' = "menu" /\ SessionUnchanged
                           /\ last'.op = "show_help"
                   /\ choice = <<"6">> => (pc' = "done" /\ SessionUnchanged)
                   /\ choice \notin {<<"1">>, <<"2">>, <<"3">>, <<"4">>, <<"5">>, <<"6">>}
                        => /\ pc' = "menu" /\ SessionUnchanged
                           /\ last'.op = "main"
       /\ (pc \in {"name", "weight", "grade"} /\ pc' = "menu")
            => /\ locals.choice = <<"1">>
                    => /\ last'.op = "add_formative_assignment"
                       /\ Len(formative_assignments') = Len(formative_assignments) + 1
                       /\ UNCHANGED <<summative_assignments, scale>>
               /\ locals.choice = <<"2">>
                    => /\ last'.op = "add_summative_assignment"
                       /\ Len(summative_assignments') = Len(summative_assignments) + 1
                       /\ UNCHANGED <<formative_assignments, scale>>
       /\ (pc # "done" /\ pc' = "done")
            => \/ (pc = "menu" /\ locals'.choice = <<"6">>)
               \/ last'.op = "KeyboardInterrupt"
       /\ pc = "done" => pc' = "done"]_vars

\* an invalid choice was typed in a session that holds assignments, and the
\* program is at the menu again
C11_Witness ==
    /\ pc = "menu"
    /\ locals.choice = <<"7">>
    /\ last.op = "main"
    /\ formative_assignments # << >>
    /\ summative_assignments # << >>

\* list before is a prefix of list after
IsPrefix(before, after) ==
    /\ Len(before) <= Len(after)
    /\ SubSeq(after, 1, Len(before)) = before

\* C15: each list only grows at its end; only add-formative changes the
\* formative list and only add-summative the summative list; view report,
\* quick GPA calculation and help leave both lists and the scale unchanged.
C15_AppendOnly ==
    [][/\ IsPrefix(formative_assignments, formative_assignments')
       /\ IsPrefix(summative_assignments, summative_assignments')
       /\ formative_assignments' # formative_assignments
            => (last'.op = "add_formative_assignment" /\ locals.choice = <<"1">>)
       /\ summative_assignments' # summative_assignments
            => (last'.op = "add_summative_assignment" /\ locals.choice = <<"2">>)
       /\ (pc = "menu" /\ locals'.choice \in {<<"3">>, <<"4">>, <<"5">>}
           /\ last'.op \in {"generate_report", "quick_gpa_calculation",
                            "show_help", "main"})
            => SessionUnchanged]_vars

\* a report was viewed after a second summative assignment was added
C15_Witness ==
    /\ last.op = "generate_report"
    /\ Len(summative_assignments) = 2
    /\ summative_assignments[1] # summative_assignments[2]

=============================================================================
